---------------------------- MODULE Spec2Model ----------------------------
(***************************************************************************)
(* Model of shredstream_client.py: the pure-Python ledger entry decoder    *)
(* (PythonEntries.from_bytes and its readers) and the streaming session    *)
(* (stream_entries) with its outer retry loop (run_forever).               *)
(*                                                                         *)
(* Python integers are unbounded.  An integer read from the wire is kept   *)
(* as the set of positions of its 1 bits, so that  |  is set union and     *)
(* << is a translation, and a value of 2^64 or more is a set holding a     *)
(* position >= 64.                                                         *)
(***************************************************************************)
EXTENDS Integers, Sequences, FiniteSets, TLC

VARIABLES
    \* decoder harness: the input handed to a decoder function and its result
    source,     \* the in-memory entries the buffer was encoded from
    data,       \* the bytes handed to the function
    mode,       \* which input was built: "init", "varint", "exact", "truncated", "extended"
    result,     \* what the function returned or raised
    \* run_forever
    args,           \* the parsed command line: shredstream_uri, account_include
    pc,             \* "parse", "call", "session", "sleep", "exit"
    filter_accounts,\* the result of parse_pubkeys
    fatal,          \* the messages of the SystemExit raised, at most one
    attempts,       \* calls of stream_entries made so far
    clock,          \* seconds spent in asyncio.sleep
    \* stream_entries, the call in progress
    spc,            \* "idle", "Connecting", "Subscribed", "Receiving", "Closed"
    step,           \* inside Receiving: "await", "decode", "emit"; else "none"
    channels,       \* channels opened by this call
    subscriptions,  \* SubscribeEntries requests sent by this call
    outcomes,       \* what this call surfaced to its caller
    slot_entry,     \* the message being processed
    pending,        \* its transactions not yet passed through the filter
    \* the world
    delivered,      \* the messages the server delivered, in order
    stdout,         \* the transactions printed
    log             \* the records logged

dvars == <<source, data, mode, result>>
rvars == <<args, pc, filter_accounts, fatal, attempts, clock>>
svars == <<spc, step, channels, subscriptions, outcomes, slot_entry, pending>>
wvars == <<delivered, stdout, log>>
vars == <<dvars, rvars, svars, wvars>>

-----------------------------------------------------------------------------
(* Bounds of the model *)

MaxCont == 10       \* continuation bytes in front of the last varint byte
MaxEntries == 2     \* entries in an encoded sequence
MaxAttempts == 2    \* calls of stream_entries made by run_forever
MaxMsgs == 2        \* messages the server delivers in all

-----------------------------------------------------------------------------
(* Integers as sets of bit positions *)

Pow2(n) == IF n = 0 THEN 1 ELSE 2 ^ n

\* the bits of a small non-negative integer
Bits(n) == {i \in 0..30 : (n \div Pow2(i)) % 2 = 1}

\* bits << shift
ShiftLeft(bits, shift) == {b + shift : b \in bits}

RECURSIVE SumPow(_)
SumPow(bits) ==
    IF bits = {} THEN 0
    ELSE LET b == CHOOSE x \in bits : TRUE IN Pow2(b) + SumPow(bits \ {b})

\* larger than any buffer length or loop index of the model
Huge(bits) == \E b \in bits : b >= 20

\* the number a bit set stands for, when it is not Huge
ToNat(bits) == SumPow(bits)

\* i < v  and  i + v > n  for a machine-size i, n and an unbounded v
LessThan(i, bits) == IF Huge(bits) THEN TRUE ELSE i < ToNat(bits)
SumExceeds(i, bits, n) == IF Huge(bits) THEN TRUE ELSE i + ToNat(bits) > n

-----------------------------------------------------------------------------
(* Results *)

Ok(v, off) == [kind |-> "ok", value |-> v, offset |-> off]
Raise(what) == [kind |-> what]

ErrVarintEnd == "Unexpected end of buffer while decoding varint"
ErrVarintLong == "Varint is too long"
ErrBytesEnd == "Unexpected end of buffer while decoding bytes"
ErrTrailing == "Unexpected trailing bytes when decoding ledger entries"
ErrTransaction == "VersionedTransaction.from_bytes failed"

-----------------------------------------------------------------------------
(* _read_varint *)

\* one pass of the while loop and the passes after it
RECURSIVE ReadVarintLoop(_, _, _, _)
ReadVarintLoop(buffer, offset, value, shift) ==
    IF offset >= Len(buffer)
    THEN Raise(ErrVarintEnd)
    ELSE LET byte == buffer[offset + 1]
             value2 == value \cup ShiftLeft(Bits(byte % 128), shift)
         IN  IF byte < 128
             THEN Ok(value2, offset + 1)
             ELSE IF shift + 7 >= 64
                  THEN Raise(ErrVarintLong)
                  ELSE ReadVarintLoop(buffer, offset + 1, value2, shift + 7)

ReadVarint(buffer, offset) == ReadVarintLoop(buffer, offset, {}, 0)

-----------------------------------------------------------------------------
(* _slice_bytes, _read_bytes, _read_u64 *)

\* buffer[offset:end] of a Python buffer, offsets counted from 0
Slice(buffer, offset, end) == SubSeq(buffer, offset + 1, end)

\* a slip: the slice taken as Python slices, clipped at the end, unchecked
SliceBytesUnchecked(buffer, offset, length) ==
    LET end == IF SumExceeds(offset, length, Len(buffer))
               THEN Len(buffer)
               ELSE offset + ToNat(length)
    IN  [kind |-> "ok", value |-> Slice(buffer, offset, end)]

\* length is an integer read from the wire, or a fixed size
SliceBytes(buffer, offset, length) ==
    IF SumExceeds(offset, length, Len(buffer))
    THEN Raise(ErrBytesEnd)
    ELSE [kind |-> "ok", value |-> Slice(buffer, offset, offset + ToNat(length))]

ReadBytes(buffer, offset, length) ==
    LET s == SliceBytes(buffer, offset, length)
    IN  IF s.kind # "ok" THEN s ELSE Ok(s.value, offset + ToNat(length))

\* int.from_bytes(bytes, "little")
FromLittleEndian(bytes) ==
    UNION {ShiftLeft(Bits(bytes[i]), 8 * (i - 1)) : i \in 1..Len(bytes)}

\* a slip: the eight bytes taken most significant first
ReadU64BigEndian(buffer, offset) ==
    LET s == IF SumExceeds(offset, Bits(8), Len(buffer))
             THEN Raise(ErrBytesEnd)
             ELSE [kind |-> "ok", value |-> Slice(buffer, offset, offset + 8)]
        reversed == [i \in 1..8 |-> s.value[9 - i]]
    IN  IF s.kind # "ok" THEN s ELSE Ok(FromLittleEndian(reversed), offset + 8)


ReadU64(buffer, offset) ==
    LET s == SliceBytes(buffer, offset, Bits(8))
    IN  IF s.kind # "ok" THEN s ELSE Ok(FromLittleEndian(s.value), offset + 8)

-----------------------------------------------------------------------------
(* The transaction-record collaborator (solders).  A transaction is stood  *)
(* for by its static account list; its bytes are the number of accounts    *)
(* followed by one byte per account, and any other byte string is          *)
(* rejected by the collaborator.                                           *)

VersionedTransactionFromBytes(bytes) ==
    IF Len(bytes) >= 1 /\ bytes[1] = Len(bytes) - 1
    THEN [kind |-> "ok", value |-> [account_keys |-> Tail(bytes)]]
    ELSE Raise(ErrTransaction)

-----------------------------------------------------------------------------
(* PythonEntries.from_bytes *)

PythonEntry(num_hashes, hash_bytes, transactions) ==
    [num_hashes |-> num_hashes, hash |-> hash_bytes, transactions |-> transactions]

\* for _ in range(tx_count): the passes from the i-th on
RECURSIVE ReadTransactions(_, _, _, _, _)
ReadTransactions(buffer, offset, tx_count, i, transactions) ==
    IF ~LessThan(i, tx_count)
    THEN Ok(transactions, offset)
    ELSE LET length == ReadVarint(buffer, offset)
         IN  IF length.kind # "ok" THEN length
             ELSE LET tx_bytes == ReadBytes(buffer, length.offset, length.value)
                  IN  IF tx_bytes.kind # "ok" THEN tx_bytes
                      ELSE LET tx == VersionedTransactionFromBytes(tx_bytes.value)
                           IN  IF tx.kind # "ok" THEN tx
                               ELSE ReadTransactions(buffer, tx_bytes.offset, tx_count,
                                        i + 1, Append(transactions, tx.value))

\* for _ in range(total): the passes from the i-th on
RECURSIVE ReadEntries(_, _, _, _, _)
ReadEntries(buffer, offset, total, i, entries) ==
    IF ~LessThan(i, total)
    THEN Ok(entries, offset)
    ELSE LET num_hashes == ReadU64(buffer, offset)
         IN  IF num_hashes.kind # "ok" THEN num_hashes
             ELSE LET hash_bytes == ReadBytes(buffer, num_hashes.offset, Bits(32))
                  IN  IF hash_bytes.kind # "ok" THEN hash_bytes
                      ELSE LET tx_count == ReadVarint(buffer, hash_bytes.offset)
                           IN  IF tx_count.kind # "ok" THEN tx_count
                               ELSE LET txs == ReadTransactions(buffer, tx_count.offset,
                                                   tx_count.value, 0, <<>>)
                                    IN  IF txs.kind # "ok" THEN txs
                                        ELSE ReadEntries(buffer, txs.offset, total, i + 1,
                                                 Append(entries,
                                                     PythonEntry(num_hashes.value,
                                                         hash_bytes.value, txs.value)))

\* a slip: the cursor not compared with the buffer length at the end
FromBytesLenient(buffer) ==
    LET total == ReadVarint(buffer, 0)
    IN  IF total.kind # "ok" THEN total
        ELSE LET read == ReadEntries(buffer, total.offset, total.value, 0, <<>>)
             IN  IF read.kind # "ok" THEN read
                 ELSE [kind |-> "ok", entries |-> read.value]


FromBytes(buffer) ==
    LET total == ReadVarint(buffer, 0)
    IN  IF total.kind # "ok" THEN total
        ELSE LET read == ReadEntries(buffer, total.offset, total.value, 0, <<>>)
             IN  IF read.kind # "ok" THEN read
                 ELSE IF read.offset # Len(buffer)
                      THEN Raise(ErrTrailing)
                      ELSE [kind |-> "ok", entries |-> read.value]

-----------------------------------------------------------------------------
(* The inverse of the layout from_bytes reads *)

\* the canonical varint of an integer below 2^70
RECURSIVE EncodeVarintFrom(_, _)
EncodeVarintFrom(bits, k) ==
    LET low == SumPow({b - 7 * k : b \in {x \in bits : x >= 7 * k /\ x < 7 * k + 7}})
        more == \E b \in bits : b >= 7 * k + 7
    IN  IF more THEN <<low + 128>> \o EncodeVarintFrom(bits, k + 1) ELSE <<low>>

EncodeVarint(bits) == EncodeVarintFrom(bits, 0)

\* int.to_bytes(8, "little")
EncodeU64(bits) ==
    [i \in 1..8 |-> SumPow({b - 8 * (i - 1) : b \in {x \in bits : x >= 8 * (i - 1) /\ x < 8 * i}})]

\* bytes(transaction)
SerializeTransaction(tx) == <<Len(tx.account_keys)>> \o tx.account_keys

RECURSIVE EncodeTransactions(_)
EncodeTransactions(txs) ==
    IF txs = <<>> THEN <<>>
    ELSE LET bytes == SerializeTransaction(Head(txs))
         IN  EncodeVarint(Bits(Len(bytes))) \o bytes \o EncodeTransactions(Tail(txs))

EncodeEntry(entry) ==
    EncodeU64(entry.num_hashes) \o entry.hash
        \o EncodeVarint(Bits(Len(entry.transactions)))
        \o EncodeTransactions(entry.transactions)

RECURSIVE EncodeEntryList(_)
EncodeEntryList(entries) ==
    IF entries = <<>> THEN <<>>
    ELSE EncodeEntry(Head(entries)) \o EncodeEntryList(Tail(entries))

EncodeEntries(entries) == EncodeVarint(Bits(Len(entries))) \o EncodeEntryList(entries)

-----------------------------------------------------------------------------
(* Inputs of the decoder *)

Repeat(byte, n) == [i \in 1..n |-> byte]

\* a run of equal continuation bytes, then no last byte or one of a few
VarintInputs ==
    {Repeat(c, k) \o last :
        k \in 0..MaxCont, c \in {128, 255},
        last \in {<<>>, <<0>>, <<1>>, <<2>>, <<127>>}}

Transaction(keys) == [account_keys |-> keys]

HashZero == Repeat(0, 32)
HashCount == [i \in 1..32 |-> i]

\* the entries a sequence is built from: the empty entry, an entry with one
\* transaction, one with two, and one whose transaction needs a two-byte length
EntryPool ==
    { PythonEntry({}, HashZero, <<>>),
      PythonEntry({0, 9, 63}, HashCount, <<Transaction(<<1>>)>>),
      PythonEntry(0..63, HashZero, <<Transaction(<<2, 3>>), Transaction(<<>>)>>),
      PythonEntry({8}, HashCount, <<Transaction(Repeat(4, 130))>>) }

EntrySeqs == UNION {[1..n -> EntryPool] : n \in 0..MaxEntries}

\* the same sequence with the entry count written in two bytes instead of one
EncodePadded(entries) == <<128 + Len(entries), 0>> \o EncodeEntryList(entries)

ExtraBytes == {0, 1, 128, 255}

NoResult == [kind |-> "none"]

-----------------------------------------------------------------------------
(* _normalize_endpoint.  An endpoint is given by what urlparse makes of it *)

RawEndpoint(text) ==
    [text |-> text, has_sep |-> FALSE, scheme |-> "", hostname |-> "",
     port_given |-> FALSE, port_valid |-> TRUE, port |-> 0]

Uri(text, scheme, hostname) ==
    [text |-> text, has_sep |-> TRUE, scheme |-> scheme, hostname |-> hostname,
     port_given |-> FALSE, port_valid |-> TRUE, port |-> 0]

UriPort(text, scheme, hostname, port) ==
    [text |-> text, has_sep |-> TRUE, scheme |-> scheme, hostname |-> hostname,
     port_given |-> TRUE, port_valid |-> TRUE, port |-> port]

UriBadPort(text, scheme, hostname) ==
    [text |-> text, has_sep |-> TRUE, scheme |-> scheme, hostname |-> hostname,
     port_given |-> TRUE, port_valid |-> FALSE, port |-> 0]

ErrNoHost == "L'URI fornito non contiene un host valido."
ErrScheme == "Schema URI non supportato."
ErrPort == "Port could not be cast to integer value"

HttpsPort == 443
HttpPort == 80

\* a slip: the scheme not checked
NormalizeEndpointAnyScheme(raw_endpoint) ==
    IF ~raw_endpoint.has_sep
    THEN [kind |-> "ok", target |-> raw_endpoint.text, secure |-> FALSE]
    ELSE IF raw_endpoint.hostname = ""
    THEN Raise(ErrNoHost)
    ELSE [kind |-> "ok", target |-> <<raw_endpoint.hostname, HttpPort>>, secure |-> FALSE]


NormalizeEndpoint(raw_endpoint) ==
    IF ~raw_endpoint.has_sep
    THEN [kind |-> "ok", target |-> raw_endpoint.text, secure |-> FALSE]
    ELSE IF raw_endpoint.hostname = ""
    THEN Raise(ErrNoHost)
    ELSE IF raw_endpoint.scheme \notin {"http", "https"}
    THEN Raise(ErrScheme)
    ELSE IF raw_endpoint.port_given /\ ~raw_endpoint.port_valid
    THEN Raise(ErrPort)
    ELSE LET port == IF raw_endpoint.port_given THEN raw_endpoint.port
                     ELSE IF raw_endpoint.scheme = "https" THEN HttpsPort ELSE HttpPort
         IN  [kind |-> "ok", target |-> <<raw_endpoint.hostname, port>>,
              secure |-> raw_endpoint.scheme = "https"]

-----------------------------------------------------------------------------
(* parse_pubkeys and _should_print_transaction *)

\* Pubkey.from_string: the strings that are keys, and the key each one is
PubkeyTable == [s \in {"Key1", "Key2", "Key3"} |->
                   IF s = "Key1" THEN 1 ELSE IF s = "Key2" THEN 2 ELSE 3]

NoFilter == [is_none |-> TRUE, keys |-> {}]
FilterOf(keys) == [is_none |-> FALSE, keys |-> keys]

NoValues == [is_none |-> TRUE, items |-> <<>>]
Values(items) == [is_none |-> FALSE, items |-> items]

\* for value in values: the passes from the i-th on
RECURSIVE ParsePubkeysFrom(_, _, _)
ParsePubkeysFrom(items, i, parsed) ==
    IF i > Len(items)
    THEN [kind |-> "ok", value |-> FilterOf(parsed)]
    ELSE IF items[i] \in DOMAIN PubkeyTable
         THEN ParsePubkeysFrom(items, i + 1, parsed \cup {PubkeyTable[items[i]]})
         ELSE [kind |-> "SystemExit", message |-> <<"Invalid pubkey provided", items[i]>>]

ParsePubkeys(values) ==
    IF values.is_none \/ values.items = <<>>
    THEN [kind |-> "ok", value |-> NoFilter]
    ELSE ParsePubkeysFrom(values.items, 1, {})

\* a slip: all() where any() is meant
ShouldPrintIfAll(transaction, filter) ==
    IF filter.is_none \/ filter.keys = {}
    THEN TRUE
    ELSE \A i \in 1..Len(transaction.account_keys) :
            transaction.account_keys[i] \in filter.keys


ShouldPrintTransaction(transaction, filter) ==
    IF filter.is_none \/ filter.keys = {}
    THEN TRUE
    ELSE \E i \in 1..Len(transaction.account_keys) :
            transaction.account_keys[i] \in filter.keys

-----------------------------------------------------------------------------
(* Inputs of run_forever and of the server *)

EndpointPool ==
    { RawEndpoint("127.0.0.1:9999"),
      UriPort("http://127.0.0.1:9999", "http", "127.0.0.1", 9999),
      Uri("https://example.com", "https", "example.com"),
      Uri("ftp://example.com", "ftp", "example.com"),
      Uri("http://", "http", ""),
      Uri("ftp://", "ftp", ""),
      UriBadPort("http://example.com:abc", "http", "example.com") }

AccountIncludePool ==
    { NoValues,
      Values(<<"Key1">>),
      Values(<<"Key3", "Key1">>),
      Values(<<"Key2", "Oops">>),
      Values(<<"">>) }

ArgsPool ==
    [shredstream_uri : EndpointPool, account_include : AccountIncludePool]

EntryOne == PythonEntry({0, 9, 63}, HashCount, <<Transaction(<<1>>)>>)
EntryTwo == PythonEntry(0..63, HashZero, <<Transaction(<<2, 3>>), Transaction(<<>>)>>)

\* an entry whose only transaction record the collaborator rejects
BadTransactionPayload ==
    <<1>> \o EncodeU64({}) \o HashZero \o <<1>> \o <<2>> \o <<5, 1>>

Message(slot, payload) == [slot |-> slot, entries |-> payload]

\* two payloads that decode, a truncated one, one with a byte too many and
\* one whose transaction record is rejected
MessagePool ==
    { Message(7, EncodeEntries(<<EntryOne, EntryTwo>>)),
      Message(9, EncodeEntries(<<EntryTwo>>)),
      Message(7, SubSeq(EncodeEntries(<<EntryOne>>), 1, 41)),
      Message(9, Append(EncodeEntries(<<EntryOne>>), 0)),
      Message(11, BadTransactionPayload) }

NoMessage == [slot |-> 0, entries |-> <<>>]

-----------------------------------------------------------------------------
(* run_forever and stream_entries *)

\* for entry in entries: for transaction in entry.transactions
RECURSIVE Flatten(_)
Flatten(entries) ==
    IF entries = <<>> THEN <<>>
    ELSE Head(entries).transactions \o Flatten(Tail(entries))

DecodeError(slot, exc) == [level |-> "exception", slot |-> slot, exc |-> exc]
SessionLog(level, what) == [level |-> level, slot |-> 0, exc |-> what]

SessionIdle ==
    /\ spc = "idle"
    /\ step = "none"
    /\ channels = 0
    /\ subscriptions = 0
    /\ outcomes = <<>>
    /\ slot_entry = NoMessage
    /\ pending = <<>>

WorldInit ==
    /\ delivered = <<>>
    /\ stdout = <<>>
    /\ log = <<>>

DecoderIdle ==
    /\ source = <<>>
    /\ data = <<>>
    /\ mode = "init"
    /\ result = NoResult

Init ==
    /\ args \in ArgsPool
    /\ pc = "parse"
    /\ filter_accounts = NoFilter
    /\ fatal = <<>>
    /\ attempts = 0
    /\ clock = 0
    /\ SessionIdle
    /\ WorldInit
    /\ DecoderIdle

\* run_forever, line 390
RunForeverStart ==
    /\ pc = "parse"
    /\ LET parsed == ParsePubkeys(args.account_include)
       IN  IF parsed.kind = "ok"
           THEN /\ filter_accounts' = parsed.value
                /\ pc' = "call"
                /\ fatal' = fatal
           ELSE /\ filter_accounts' = filter_accounts
                /\ pc' = "exit"
                /\ fatal' = Append(fatal, parsed.message)
    /\ UNCHANGED <<args, attempts, clock, svars, wvars, dvars>>

\* run_forever calls stream_entries, which runs up to the channel factory;
\* a ValueError of _normalize_endpoint goes through to run_forever's handler
CallStreamEntries ==
    /\ pc = "call"
    /\ attempts < MaxAttempts
    /\ attempts' = attempts + 1
    /\ LET normalized == NormalizeEndpoint(args.shredstream_uri)
       IN  IF normalized.kind = "ok"
           THEN /\ pc' = "session"
                /\ spc' = "Connecting"
                /\ fatal' = fatal
           ELSE /\ pc' = "exit"
                /\ spc' = "idle"
                /\ fatal' = Append(fatal, normalized.kind)
    /\ channels' = 0
    /\ subscriptions' = 0
    /\ outcomes' = <<>>
    /\ UNCHANGED <<args, filter_accounts, clock, step, slot_entry, pending, wvars, dvars>>

\* async with channel_factory(target, **channel_kwargs) as channel
OpenChannel ==
    /\ spc = "Connecting"
    /\ channels' = channels + 1
    /\ spc' = "Subscribed"
    /\ UNCHANGED <<rvars, step, subscriptions, outcomes, slot_entry, pending, wvars, dvars>>

\* client.SubscribeEntries(request, metadata=metadata)
Subscribe ==
    /\ spc = "Subscribed"
    /\ subscriptions' = subscriptions + 1
    /\ spc' = "Receiving"
    /\ step' = "await"
    /\ UNCHANGED <<rvars, channels, outcomes, slot_entry, pending, wvars, dvars>>

\* async for slot_entry in stream: the server delivers a message
ReceiveMessage ==
    /\ spc = "Receiving"
    /\ step = "await"
    /\ Len(delivered) < MaxMsgs
    /\ \E message \in MessagePool :
        /\ slot_entry' = message
        /\ delivered' = Append(delivered, message)
    /\ step' = "decode"
    /\ UNCHANGED <<rvars, spc, channels, subscriptions, outcomes, pending, stdout, log, dvars>>

\* a slip: no try statement, so a decoder error leaves the loop and the call
DecodeMessageUncaught ==
    /\ spc = "Receiving"
    /\ step = "decode"
    /\ LET entries == FromBytes(slot_entry.entries)
       IN  IF entries.kind # "ok"
           THEN /\ pending' = <<>>
                /\ step' = "none"
                /\ spc' = "Closed"
                /\ outcomes' = Append(outcomes, "ValueError")
                /\ slot_entry' = NoMessage
           ELSE /\ pending' = Flatten(entries.entries)
                /\ step' = IF pending' = <<>> THEN "await" ELSE "emit"
                /\ spc' = spc
                /\ outcomes' = outcomes
                /\ slot_entry' = IF pending' = <<>> THEN NoMessage ELSE slot_entry
    /\ UNCHANGED <<rvars, channels, subscriptions, wvars, dvars>>

\* the try statement of the loop body
DecodeMessage ==
    /\ spc = "Receiving"
    /\ step = "decode"
    /\ LET entries == FromBytes(slot_entry.entries)
       IN  IF entries.kind # "ok"
           THEN /\ log' = Append(log, DecodeError(slot_entry.slot, entries.kind))
                /\ pending' = <<>>
                /\ step' = "await"
                /\ slot_entry' = NoMessage
           ELSE /\ log' = log
                /\ pending' = Flatten(entries.entries)
                /\ step' = IF pending' = <<>> THEN "await" ELSE "emit"
                /\ slot_entry' = IF pending' = <<>> THEN NoMessage ELSE slot_entry
    /\ UNCHANGED <<rvars, spc, channels, subscriptions, outcomes, delivered, stdout, dvars>>

\* a slip: the transactions of a message taken last first
EmitTransactionFromEnd ==
    /\ spc = "Receiving"
    /\ step = "emit"
    /\ stdout' = IF ShouldPrintTransaction(pending[Len(pending)], filter_accounts)
                 THEN Append(stdout, pending[Len(pending)])
                 ELSE stdout
    /\ pending' = SubSeq(pending, 1, Len(pending) - 1)
    /\ step' = IF pending' = <<>> THEN "await" ELSE "emit"
    /\ slot_entry' = IF pending' = <<>> THEN NoMessage ELSE slot_entry
    /\ UNCHANGED <<rvars, spc, channels, subscriptions, outcomes, delivered, log, dvars>>

\* one pass of the inner for loop
EmitTransaction ==
    /\ spc = "Receiving"
    /\ step = "emit"
    /\ stdout' = IF ShouldPrintTransaction(Head(pending), filter_accounts)
                 THEN Append(stdout, Head(pending))
                 ELSE stdout
    /\ pending' = Tail(pending)
    /\ step' = IF pending' = <<>> THEN "await" ELSE "emit"
    /\ slot_entry' = IF pending' = <<>> THEN NoMessage ELSE slot_entry
    /\ UNCHANGED <<rvars, spc, channels, subscriptions, outcomes, delivered, log, dvars>>

\* the stream ends: the async for loop and the call return
StreamEnds ==
    /\ spc = "Receiving"
    /\ step = "await"
    /\ spc' = "Closed"
    /\ step' = "none"
    /\ outcomes' = Append(outcomes, "graceful")
    /\ UNCHANGED <<rvars, channels, subscriptions, slot_entry, pending, wvars, dvars>>

\* a slip: a retry inside stream_entries
TransportFailsAndReconnects ==
    /\ \/ spc \in {"Connecting", "Subscribed"}
       \/ spc = "Receiving" /\ step = "await"
    /\ spc' = IF channels = 0 THEN "Closed" ELSE "Connecting"
    /\ step' = "none"
    /\ outcomes' = Append(outcomes, "RpcError")
    /\ UNCHANGED <<rvars, channels, subscriptions, slot_entry, pending, wvars, dvars>>

\* the transport raises grpc.RpcError: while connecting, subscribing or awaiting
TransportFails ==
    /\ \/ spc \in {"Connecting", "Subscribed"}
       \/ spc = "Receiving" /\ step = "await"
    /\ spc' = "Closed"
    /\ step' = "none"
    /\ outcomes' = Append(outcomes, "RpcError")
    /\ UNCHANGED <<rvars, channels, subscriptions, slot_entry, pending, wvars, dvars>>

\* a slip: grpc.RpcError not handled, so it ends run_forever
SessionReturnsOrGivesUp ==
    /\ pc = "session"
    /\ spc = "Closed"
    /\ log' = Append(log,
                IF outcomes[Len(outcomes)] = "graceful"
                THEN SessionLog("info", "Stream ended gracefully. Reconnecting")
                ELSE SessionLog("error", "Connection or stream error. Retrying"))
    /\ pc' = IF outcomes[Len(outcomes)] = "graceful" THEN "sleep" ELSE "exit"
    /\ spc' = "idle"
    /\ UNCHANGED <<args, filter_accounts, fatal, attempts, clock, step, channels,
                   subscriptions, outcomes, slot_entry, pending, delivered, stdout, dvars>>

\* run_forever, lines 395 and 398-399
SessionReturns ==
    /\ pc = "session"
    /\ spc = "Closed"
    /\ log' = Append(log,
                IF outcomes[Len(outcomes)] = "graceful"
                THEN SessionLog("info", "Stream ended gracefully. Reconnecting")
                ELSE SessionLog("error", "Connection or stream error. Retrying"))
    /\ pc' = "sleep"
    /\ spc' = "idle"
    /\ UNCHANGED <<args, filter_accounts, fatal, attempts, clock, step, channels,
                   subscriptions, outcomes, slot_entry, pending, delivered, stdout, dvars>>

RetryDelay == 1

\* await asyncio.sleep(1)
Sleep ==
    /\ pc = "sleep"
    /\ clock' = clock + RetryDelay
    /\ pc' = "call"
    /\ UNCHANGED <<args, filter_accounts, fatal, attempts, svars, wvars, dvars>>

Next ==
    \/ RunForeverStart
    \/ CallStreamEntries
    \/ OpenChannel
    \/ Subscribe
    \/ ReceiveMessage
    \/ DecodeMessage
    \/ EmitTransaction
    \/ StreamEnds
    \/ TransportFails
    \/ SessionReturns
    \/ Sleep

Spec == Init /\ [][Next]_vars

\* the state of a program that has not been started
ProgramIdle ==
    /\ args = [shredstream_uri |-> RawEndpoint("127.0.0.1:9999"), account_include |-> NoValues]
    /\ pc = "parse"
    /\ filter_accounts = NoFilter
    /\ fatal = <<>>
    /\ attempts = 0
    /\ clock = 0
    /\ SessionIdle
    /\ WorldInit

-----------------------------------------------------------------------------
(* _read_varint applied to a buffer *)

InitVarint ==
    /\ ProgramIdle
    /\ source = <<>>
    /\ data \in VarintInputs
    /\ mode = "init"
    /\ result = NoResult

CallReadVarint ==
    /\ mode = "init"
    /\ result' = ReadVarint(data, 0)
    /\ mode' = "varint"
    /\ UNCHANGED <<source, data, rvars, svars, wvars>>

NextVarint == CallReadVarint

SpecVarint == InitVarint /\ [][NextVarint]_vars

-----------------------------------------------------------------------------
(* PythonEntries.from_bytes applied to an encoding, to each of its proper  *)
(* prefixes and to the encoding with one more byte                         *)

InitDecode ==
    /\ ProgramIdle
    /\ source \in EntrySeqs
    /\ data \in {EncodeEntries(source), EncodePadded(source)}
    /\ mode = "init"
    /\ result = NoResult

DecodeExact ==
    /\ mode = "init"
    /\ result' = FromBytes(data)
    /\ mode' = "exact"
    /\ UNCHANGED <<source, data, rvars, svars, wvars>>

DecodeTruncated ==
    /\ mode = "init"
    /\ \E k \in 0..(Len(data) - 1) :
        /\ data' = SubSeq(data, 1, k)
        /\ result' = FromBytes(data')
    /\ mode' = "truncated"
    /\ UNCHANGED <<source, rvars, svars, wvars>>

DecodeExtended ==
    /\ mode = "init"
    /\ \E b \in ExtraBytes :
        /\ data' = Append(data, b)
        /\ result' = FromBytes(data')
    /\ mode' = "extended"
    /\ UNCHANGED <<source, rvars, svars, wvars>>

NextDecode == DecodeExact \/ DecodeTruncated \/ DecodeExtended

SpecDecode == InitDecode /\ [][NextDecode]_vars

-----------------------------------------------------------------------------
(* PythonEntries.from_bytes read by read: mode is the read about to be     *)
(* made and result holds the locals of the call, offset among them         *)

\* encodings of short sequences, cut anywhere or with one byte overwritten
CursorSources ==
    UNION {[1..n -> {PythonEntry({}, HashZero, <<>>), EntryTwo}] : n \in 0..MaxEntries}

Overwrite(bytes, k, b) == [i \in 1..Len(bytes) |-> IF i = k THEN b ELSE bytes[i]]

CursorBuffers ==
    UNION { LET bytes == EncodeEntries(entries)
            IN  {SubSeq(bytes, 1, k) : k \in 0..Len(bytes)}
                  \cup {Overwrite(bytes, k, b) : k \in 1..Len(bytes), b \in {0, 3, 255}}
                  \cup {Append(bytes, 0)}
          : entries \in CursorSources }

Locals ==
    [kind |-> "running", offset |-> 0, from |-> 0, total |-> {}, i |-> 0,
     num_hashes |-> {}, hash |-> <<>>, tx_count |-> {}, j |-> 0, length |-> {},
     transactions |-> <<>>, entries |-> <<>>]

InitCursor ==
    /\ ProgramIdle
    /\ source = <<>>
    /\ data \in CursorBuffers
    /\ mode = "read total"
    /\ result = Locals

\* a read raised: the assignment to offset is not made
Raised(what) ==
    /\ mode' = "raised"
    /\ result' = [result EXCEPT !.kind = what]

\* a read returned: offset is assigned what the read returned with the value
Advance(next, read, locals) ==
    /\ mode' = next
    /\ result' = [locals EXCEPT !.from = result.offset, !.offset = read.offset]

\* line 91
ReadTotal ==
    /\ mode = "read total"
    /\ LET total == ReadVarint(data, result.offset)
       IN  IF total.kind # "ok" THEN Raised(total.kind)
           ELSE Advance("next entry", total, [result EXCEPT !.total = total.value])
    /\ UNCHANGED <<source, data, rvars, svars, wvars>>

\* lines 94-95
ReadNumHashes ==
    /\ mode = "next entry"
    /\ LessThan(result.i, result.total)
    /\ LET num_hashes == ReadU64(data, result.offset)
       IN  IF num_hashes.kind # "ok" THEN Raised(num_hashes.kind)
           ELSE Advance("read hash", num_hashes,
                    [result EXCEPT !.num_hashes = num_hashes.value])
    /\ UNCHANGED <<source, data, rvars, svars, wvars>>

\* line 96
ReadHash ==
    /\ mode = "read hash"
    /\ LET hash_bytes == ReadBytes(data, result.offset, Bits(32))
       IN  IF hash_bytes.kind # "ok" THEN Raised(hash_bytes.kind)
           ELSE Advance("read tx_count", hash_bytes,
                    [result EXCEPT !.hash = hash_bytes.value])
    /\ UNCHANGED <<source, data, rvars, svars, wvars>>

\* lines 97-99
ReadTxCount ==
    /\ mode = "read tx_count"
    /\ LET tx_count == ReadVarint(data, result.offset)
       IN  IF tx_count.kind # "ok" THEN Raised(tx_count.kind)
           ELSE Advance("next transaction", tx_count,
                    [result EXCEPT !.tx_count = tx_count.value, !.j = 0,
                                   !.transactions = <<>>])
    /\ UNCHANGED <<source, data, rvars, svars, wvars>>

\* lines 100-101
ReadLength ==
    /\ mode = "next transaction"
    /\ LessThan(result.j, result.tx_count)
    /\ LET length == ReadVarint(data, result.offset)
       IN  IF length.kind # "ok" THEN Raised(length.kind)
           ELSE Advance("read transaction", length,
                    [result EXCEPT !.length = length.value])
    /\ UNCHANGED <<source, data, rvars, svars, wvars>>

\* lines 102-103: offset is assigned before the collaborator is called
ReadTransaction ==
    /\ mode = "read transaction"
    /\ LET tx_bytes == ReadBytes(data, result.offset, result.length)
       IN  IF tx_bytes.kind # "ok" THEN Raised(tx_bytes.kind)
           ELSE LET tx == VersionedTransactionFromBytes(tx_bytes.value)
                IN  IF tx.kind # "ok"
                    THEN Advance("raised", tx_bytes, [result EXCEPT !.kind = tx.kind])
                    ELSE Advance("next transaction", tx_bytes,
                             [result EXCEPT !.j = result.j + 1,
                                 !.transactions = Append(result.transactions, tx.value)])
    /\ UNCHANGED <<source, data, rvars, svars, wvars>>

\* line 105, at the end of the inner loop
AppendEntry ==
    /\ mode = "next transaction"
    /\ ~LessThan(result.j, result.tx_count)
    /\ mode' = "next entry"
    /\ result' = [result EXCEPT !.i = result.i + 1,
                     !.entries = Append(result.entries,
                         PythonEntry(result.num_hashes, result.hash, result.transactions))]
    /\ UNCHANGED <<source, data, rvars, svars, wvars>>

\* lines 107-110, at the end of the outer loop
CheckEnd ==
    /\ mode = "next entry"
    /\ ~LessThan(result.i, result.total)
    /\ IF result.offset # Len(data)
       THEN Raised(ErrTrailing)
       ELSE /\ mode' = "returned"
            /\ result' = [result EXCEPT !.kind = "ok"]
    /\ UNCHANGED <<source, data, rvars, svars, wvars>>

NextCursor ==
    \/ ReadTotal
    \/ ReadNumHashes
    \/ ReadHash
    \/ ReadTxCount
    \/ ReadLength
    \/ ReadTransaction
    \/ AppendEntry
    \/ CheckEnd

SpecCursor == InitCursor /\ [][NextCursor]_vars

-----------------------------------------------------------------------------
(* Properties of _read_varint, checked under SpecVarint *)

\* the bytes of the varint at the head of a buffer end with a byte below 128
VarintEnd(bytes) ==
    IF \E i \in 1..Len(bytes) : bytes[i] < 128
    THEN CHOOSE i \in 1..Len(bytes) : bytes[i] < 128 /\ \A j \in 1..(i - 1) : bytes[j] >= 128
    ELSE 0

\* the value those bytes spell out, seven bits a byte, lowest first
WireValue(bytes) ==
    UNION {ShiftLeft(Bits(bytes[i] % 128), 7 * (i - 1)) : i \in 1..VarintEnd(bytes)}

\* C1: a varint that needs a 65th or higher bit of value is rejected with
\* "Varint is too long", and no value of 2^64 or more is ever returned.
VarintBelowTwoTo64 ==
    mode = "varint" =>
        /\ result.kind = "ok" => \A b \in result.value : b < 64
        /\ (VarintEnd(data) > 0 /\ \E b \in WireValue(data) : b >= 64)
               => result.kind = ErrVarintLong

-----------------------------------------------------------------------------
(* Properties of PythonEntries.from_bytes, checked under SpecDecode *)

\* C2: decoding the encoding of a sequence of entries returns that sequence:
\* the same entries in the same order, each with the same num_hashes, hash and
\* transactions, an entry without transactions included.
RoundTrip ==
    mode = "exact" => result = [kind |-> "ok", entries |-> source]

RoundTripWitness ==
    /\ mode = "exact"
    /\ result.kind = "ok"
    /\ Len(result.entries) = 2
    /\ result.entries[1].transactions = <<>>
    /\ result.entries[1].num_hashes = {}
    /\ Len(result.entries[2].transactions) = 2
    /\ result.entries[2].num_hashes = 0..63

\* the encoding of the first entry alone, with the count of the whole sequence
FirstEntryOnly(entries) == <<Len(entries)>> \o EncodeEntry(entries[1])

\* C3: an encoding cut at any offset before its end raises an end-of-buffer
\* error and returns no entries; a buffer that declares two entries and holds
\* one raises the end-of-buffer error of the byte reader.
TruncatedFails ==
    mode = "truncated" =>
        /\ result.kind \in {ErrVarintEnd, ErrBytesEnd}
        /\ (Len(source) = 2 /\ data = FirstEntryOnly(source)) => result.kind = ErrBytesEnd

TruncatedWitness ==
    /\ mode = "truncated"
    /\ Len(source) = 2
    /\ data = FirstEntryOnly(source)
    /\ data[1] = 2
    /\ result = Raise(ErrBytesEnd)

\* where the cursor stands after the last declared entry of a buffer
CursorAfterEntries(buffer) ==
    LET total == ReadVarint(buffer, 0)
    IN  ReadEntries(buffer, total.offset, total.value, 0, <<>>).offset

\* C4: an encoding with one more byte raises the trailing-bytes error, and a
\* result is returned only with the cursor at the end of the buffer.
ExtendedFails ==
    /\ mode = "extended" => result.kind = ErrTrailing
    /\ (mode # "init" /\ result.kind = "ok") => CursorAfterEntries(data) = Len(data)

ExtendedWitness ==
    /\ mode = "extended"
    /\ Len(source) >= 1
    /\ result = Raise(ErrTrailing)
    /\ CursorAfterEntries(data) = Len(data) - 1

-----------------------------------------------------------------------------
(* Properties of stream_entries and run_forever, checked under Spec *)

\* C5: a message that fails to decode is logged with its slot, prints
\* nothing, and leaves the session receiving and awaiting the next message;
\* nothing is surfaced to the caller.
DecodeFailureIsLocal ==
    [][(step = "decode" /\ FromBytes(slot_entry.entries).kind # "ok") =>
          /\ log' = Append(log, DecodeError(slot_entry.slot, FromBytes(slot_entry.entries).kind))
          /\ stdout' = stdout
          /\ pending' = <<>>
          /\ spc' = "Receiving"
          /\ step' = "await"
          /\ outcomes' = outcomes
          /\ pc' = pc]_vars

DecodeFailureWitness ==
    /\ spc = "Receiving"
    /\ step = "await"
    /\ Len(delivered) = 2
    /\ Len(log) = 2
    /\ log[1] = DecodeError(7, ErrVarintEnd)
    /\ log[2] = DecodeError(11, ErrTransaction)
    /\ stdout = <<>>
    /\ outcomes = <<>>

Range(seq) == {seq[i] : i \in 1..Len(seq)}

\* the rule of the account filter, in terms of sets
Matches(transaction, filter) ==
    filter.is_none \/ filter.keys = {} \/ Range(transaction.account_keys) \cap filter.keys # {}

KeyUniverse == 1..4
TransactionUniverse ==
    {Transaction(keys) : keys \in UNION {[1..n -> KeyUniverse] : n \in 0..2}}
FilterUniverse == {NoFilter} \cup {FilterOf(keys) : keys \in SUBSET KeyUniverse}

\* C6: with no filter or an empty one every transaction is printed; with a
\* non-empty filter a transaction is printed exactly when one of its static
\* account keys is in the filter.
FilterDecidesEmission ==
    /\ \A transaction \in TransactionUniverse, filter \in FilterUniverse :
          ShouldPrintTransaction(transaction, filter) = Matches(transaction, filter)
    /\ [][step = "emit" =>
             stdout' = IF Matches(Head(pending), filter_accounts)
                       THEN Append(stdout, Head(pending))
                       ELSE stdout]_vars

FilterWitness ==
    /\ filter_accounts = FilterOf({1, 3})
    /\ Len(delivered) = 1
    /\ step = "await"
    /\ pending = <<>>
    /\ stdout = <<Transaction(<<1>>), Transaction(<<2, 3>>)>>

\* the transactions of a list of entries, entry by entry
RECURSIVE InEntryOrder(_)
InEntryOrder(entries) ==
    IF entries = <<>> THEN <<>>
    ELSE InEntryOrder(SubSeq(entries, 1, Len(entries) - 1))
            \o entries[Len(entries)].transactions

\* the transactions each message of the pool carries, none if it does not decode
CarriedBy ==
    [message \in MessagePool |->
        LET decoded == FromBytes(message.entries)
        IN  IF decoded.kind = "ok" THEN InEntryOrder(decoded.entries) ELSE <<>>]

\* the transactions of a list of messages, message by message
RECURSIVE InDeliveryOrder(_)
InDeliveryOrder(messages) ==
    IF messages = <<>> THEN <<>>
    ELSE InDeliveryOrder(SubSeq(messages, 1, Len(messages) - 1))
            \o CarriedBy[messages[Len(messages)]]

Wanted(transaction) == Matches(transaction, filter_accounts)

\* the messages whose decoding has begun
Begun == IF step = "decode" THEN SubSeq(delivered, 1, Len(delivered) - 1) ELSE delivered

\* C7: messages are processed one at a time: a message is decoded only when
\* nothing of the one before is left to print, and what is printed follows the
\* order of delivery, then of the entries, then of the transactions.
OneMessageAtATime ==
    /\ step \in {"decode", "await", "none"} => pending = <<>>
    /\ stdout \o SelectSeq(pending, Wanted) = SelectSeq(InDeliveryOrder(Begun), Wanted)

OrderWitness ==
    /\ filter_accounts = NoFilter
    /\ Len(delivered) = 2
    /\ step = "await"
    /\ stdout = <<Transaction(<<1>>), Transaction(<<2, 3>>), Transaction(<<>>),
                  Transaction(<<2, 3>>), Transaction(<<>>)>>

\* C8: a call of stream_entries opens at most one channel and sends at most
\* one subscription; closed, it has surfaced one outcome, a graceful end or a
\* transport error; a failure to connect closes it with the error.
OneSessionOneOutcome ==
    /\ channels <= 1
    /\ subscriptions <= channels
    /\ Len(outcomes) <= 1
    /\ spc \in {"Connecting", "Subscribed", "Receiving"} => outcomes = <<>>
    /\ spc = "Closed" => Len(outcomes) = 1 /\ outcomes[1] \in {"graceful", "RpcError"}
    /\ (spc = "Closed" /\ channels = 0) => outcomes = <<"RpcError">>

OneSessionWitness ==
    /\ attempts = 2
    /\ spc = "Closed"
    /\ channels = 1
    /\ subscriptions = 1
    /\ Len(delivered) = 1
    /\ outcomes = <<"RpcError">>

\* C9: when a session ends, gracefully or with a transport error, run_forever
\* sleeps the fixed delay and calls stream_entries again with the filter it
\* parsed; only a configuration error ends the loop.
RetryForever ==
    /\ [](pc = "session" => clock = (attempts - 1) * RetryDelay)
    /\ [](pc = "sleep" => ENABLED Sleep)
    /\ []((pc = "call" /\ attempts < MaxAttempts) => ENABLED CallStreamEntries)
    /\ []((pc = "session" /\ spc = "Closed") => ENABLED SessionReturns)
    /\ [](pc = "exit" => (attempts <= 1 /\ channels = 0 /\ fatal # <<>>))
    /\ [][(pc = "session" /\ spc = "Closed") => pc' = "sleep"]_vars
    /\ [][pc = "sleep" => (pc' = "call" /\ clock' = clock + RetryDelay)]_vars
    /\ [][(pc = "call" /\ attempts >= 1) => (pc' = "session" /\ spc' = "Connecting")]_vars
    /\ [][pc # "parse" => filter_accounts' = filter_accounts]_vars

RetryWitness ==
    /\ attempts = 2
    /\ pc = "session"
    /\ spc = "Connecting"
    /\ clock = RetryDelay
    /\ filter_accounts = FilterOf({1})
    /\ log = <<SessionLog("error", "Connection or stream error. Retrying")>>

\* an endpoint URI with a scheme other than http and https, or without a host
BadUri(endpoint) ==
    endpoint.has_sep /\ (endpoint.hostname = "" \/ endpoint.scheme \notin {"http", "https"})

\* a list of account identifiers one of which is no key
BadAccounts(values) ==
    ~values.is_none /\ \E i \in 1..Len(values.items) : values.items[i] \notin DOMAIN PubkeyTable

\* C10: with an endpoint URI of unsupported scheme or without host, or with an
\* invalid account identifier, no channel is opened, no subscription is sent
\* and nothing is retried: the first step that meets the error ends the run.
ConfigurationErrorIsFatal ==
    /\ []((BadUri(args.shredstream_uri) \/ BadAccounts(args.account_include)) =>
            /\ pc \in {"parse", "call", "exit"}
            /\ spc = "idle"
            /\ channels = 0
            /\ subscriptions = 0
            /\ clock = 0
            /\ delivered = <<>>
            /\ pc = "exit" => Len(fatal) = 1)
    /\ [][(pc = "parse" /\ BadAccounts(args.account_include)) => pc' = "exit"]_vars
    /\ [][(pc = "call" /\ BadUri(args.shredstream_uri)) => pc' = "exit"]_vars
    /\ [][pc = "exit" => UNCHANGED vars]_vars

ConfigurationWitness ==
    /\ pc = "exit"
    /\ args.shredstream_uri.scheme = "ftp"
    /\ args.shredstream_uri.hostname # ""
    /\ args.account_include = Values(<<"Key1">>)
    /\ attempts = 1
    /\ channels = 0
    /\ fatal = <<ErrScheme>>

-----------------------------------------------------------------------------
(* Properties of the cursor of PythonEntries.from_bytes, under SpecCursor *)

\* the size of the fixed-size read about to be made, as the number of bytes
FixedSize ==
    IF mode = "next entry" /\ LessThan(result.i, result.total) THEN Bits(8)
    ELSE IF mode = "read hash" THEN Bits(32)
    ELSE result.length

AtFixedRead ==
    \/ mode = "next entry" /\ LessThan(result.i, result.total)
    \/ mode \in {"read hash", "read transaction"}

\* C11: after every read the cursor is between 0 and the length of the
\* buffer, every read takes its bytes from inside the buffer, a fixed-size
\* read that would pass the end raises at once and leaves the cursor where it
\* was, and a transaction returned lies inside the buffer.
CursorStaysInside ==
    /\ [](/\ 0 <= result.from
          /\ result.from <= result.offset
          /\ result.offset <= Len(data))
    /\ [][Len(result'.transactions) > Len(result.transactions) =>
             SerializeTransaction(result'.transactions[Len(result'.transactions)])
                 = SubSeq(data, result'.from + 1, result'.offset)]_vars
    /\ [][(AtFixedRead /\ SumExceeds(result.offset, FixedSize, Len(data))) =>
             /\ mode' = "raised"
             /\ result' = [result EXCEPT !.kind = ErrBytesEnd]]_vars
    /\ [][(AtFixedRead /\ ~SumExceeds(result.offset, FixedSize, Len(data))) =>
             /\ result'.from = result.offset
             /\ result'.offset = result.offset + ToNat(FixedSize)]_vars
    /\ [](mode = "returned" => result.entries = FromBytes(data).entries)

CursorWitness ==
    /\ mode = "raised"
    /\ result.kind = ErrBytesEnd
    /\ result.length = Bits(3)
    /\ result.offset = Len(data) - 2
    /\ result.i = 1
    /\ result.j = 0

=============================================================================
